---- MODULE Spec2Model ----
(***************************************************************************)
(* RedisCacheAdapter (src/src/RedisCacheAdapter.ts) over an ioredis client *)
(* and a Redis keyspace.  Strings are sequences of one-character strings,  *)
(* so that key concatenation, glob matching and the JSON text encoding are *)
(* computed character by character.                                        *)
(***************************************************************************)
EXTENDS Integers, Sequences, FiniteSets, TLC

VARIABLES adapter, connected, store, now, clr, ret, written, ops

vars == <<adapter, connected, store, now, clr, ret, written, ops>>

\* ------------------------------------------------------------------ bounds
MaxTime == 2
MaxOps == 3
NSlots == 2

\* ----------------------------------------------------------------- strings
Str_a == <<"a">>
Str_aa == <<"a", "a">>
Str_a_b == <<"a", ":", "b">>
Str_astar == <<"a", "*">>
Str_k == <<"k">>
Str_b_k == <<"b", ":", "k">>
Str_empty == <<>>

\* 'mikro', the fallback of `keyPrefix || 'mikro'`
DefaultPrefix == <<"m", "i", "k", "r", "o">>

HasPrefix(s, p) == Len(s) >= Len(p) /\ SubSeq(s, 1, Len(p)) = p

Drop(s, n) == SubSeq(s, n + 1, Len(s))

\* --------------------------------------------------------- JSON value model
\* a JavaScript value: t is the type tag, n a number, s a string, k the
\* property names of an object and a the elements / property values
JVal(t, n, s, k, a) == [t |-> t, n |-> n, s |-> s, k |-> k, a |-> a]
Undefined == JVal("undefined", 0, <<>>, <<>>, <<>>)
JNull == JVal("null", 0, <<>>, <<>>, <<>>)
JBool(b) == JVal(IF b THEN "true" ELSE "false", 0, <<>>, <<>>, <<>>)
JNum(n) == JVal("num", n, <<>>, <<>>, <<>>)
JStr(s) == JVal("str", 0, s, <<>>, <<>>)
JArr(a) == JVal("arr", 0, <<>>, <<>>, a)
JObj(k, a) == JVal("obj", 0, <<>>, k, a)

DigitChars == <<"0", "1", "2", "3", "4", "5", "6", "7", "8", "9">>

RECURSIVE NatText(_)
NatText(n) ==
  IF n < 10 THEN <<DigitChars[n + 1]>>
  ELSE NatText(n \div 10) \o <<DigitChars[(n % 10) + 1]>>

NumText(n) == IF n < 0 THEN <<"-">> \o NatText(0 - n) ELSE NatText(n)

\* QuoteJSONString: '"' and '\' are escaped with a backslash
RECURSIVE EscapeChars(_)
EscapeChars(s) ==
  IF s = <<>> THEN <<>>
  ELSE (IF Head(s) \in {"\"", "\\"} THEN <<"\\", Head(s)>> ELSE <<Head(s)>>)
       \o EscapeChars(Tail(s))

QuoteText(s) == <<"\"">> \o EscapeChars(s) \o <<"\"">>

RECURSIVE JSON_stringify(_)
RECURSIVE StringifyItems(_, _)
RECURSIVE StringifyMembers(_, _, _)
StringifyItems(a, i) ==
  IF i > Len(a) THEN <<>>
  ELSE (IF i > 1 THEN <<",">> ELSE <<>>) \o JSON_stringify(a[i])
       \o StringifyItems(a, i + 1)

StringifyMembers(k, a, i) ==
  IF i > Len(k) THEN <<>>
  ELSE (IF i > 1 THEN <<",">> ELSE <<>>) \o QuoteText(k[i]) \o <<":">>
       \o JSON_stringify(a[i]) \o StringifyMembers(k, a, i + 1)

JSON_stringify(v) ==
  CASE v.t = "null" -> <<"n", "u", "l", "l">>
    [] v.t = "true" -> <<"t", "r", "u", "e">>
    [] v.t = "false" -> <<"f", "a", "l", "s", "e">>
    [] v.t = "num" -> NumText(v.n)
    [] v.t = "str" -> QuoteText(v.s)
    [] v.t = "arr" -> <<"[">> \o StringifyItems(v.a, 1) \o <<"]">>
    [] v.t = "obj" -> <<"{">> \o StringifyMembers(v.k, v.a, 1) \o <<"}">>

\* ------------------------------------------------------------- JSON parser
\* a parse step returns [ok, v, rest]: the value read and the unread text
PFail == [ok |-> FALSE, v |-> Undefined, rest |-> <<>>]
POk(v, rest) == [ok |-> TRUE, v |-> v, rest |-> rest]

DigitValue(c) == CHOOSE d \in 0..9 : DigitChars[d + 1] = c
IsDigit(c) == \E d \in 0..9 : DigitChars[d + 1] = c

RECURSIVE ParseDigits(_, _)
ParseDigits(s, acc) ==
  IF s # <<>> /\ IsDigit(Head(s))
  THEN ParseDigits(Tail(s), acc * 10 + DigitValue(Head(s)))
  ELSE POk(JNum(acc), s)

ParseNumber(s) ==
  IF s # <<>> /\ Head(s) = "-"
  THEN IF Len(s) >= 2 /\ IsDigit(s[2])
       THEN LET r == ParseDigits(Tail(s), 0)
            IN POk(JNum(0 - r.v.n), r.rest)
       ELSE PFail
  ELSE IF s # <<>> /\ IsDigit(Head(s))
       THEN IF Head(s) = "0" /\ Len(s) >= 2 /\ IsDigit(s[2]) THEN PFail
            ELSE ParseDigits(s, 0)
       ELSE PFail

\* the text after the opening quote, up to and including the closing quote
RECURSIVE ParseChars(_, _)
ParseChars(s, acc) ==
  IF s = <<>> THEN PFail
  ELSE IF Head(s) = "\"" THEN POk(JStr(acc), Tail(s))
  ELSE IF Head(s) = "\\"
       THEN IF Len(s) >= 2 /\ s[2] \in {"\"", "\\"}
            THEN ParseChars(Drop(s, 2), Append(acc, s[2]))
            ELSE PFail
  ELSE ParseChars(Tail(s), Append(acc, Head(s)))

Literal(s, word, v) ==
  IF HasPrefix(s, word) THEN POk(v, Drop(s, Len(word))) ELSE PFail

RECURSIVE ParseValue(_)
RECURSIVE ParseItems(_, _)
RECURSIVE ParseMembers(_, _, _)
\* s is the text after '[' or after a ','; acc the elements read so far
ParseItems(s, acc) ==
  LET r == ParseValue(s)
  IN IF ~r.ok THEN PFail
     ELSE IF r.rest = <<>> THEN PFail
     ELSE IF Head(r.rest) = "]" THEN POk(JArr(Append(acc, r.v)), Tail(r.rest))
     ELSE IF Head(r.rest) = "," THEN ParseItems(Tail(r.rest), Append(acc, r.v))
     ELSE PFail

ParseMembers(s, ks, acc) ==
  IF s = <<>> \/ Head(s) # "\"" THEN PFail
  ELSE LET kr == ParseChars(Tail(s), <<>>)
       IN IF ~kr.ok \/ kr.rest = <<>> \/ Head(kr.rest) # ":" THEN PFail
          ELSE LET r == ParseValue(Tail(kr.rest))
               IN IF ~r.ok \/ r.rest = <<>> THEN PFail
                  ELSE IF Head(r.rest) = "}"
                       THEN POk(JObj(Append(ks, kr.v.s), Append(acc, r.v)),
                                Tail(r.rest))
                  ELSE IF Head(r.rest) = ","
                       THEN ParseMembers(Tail(r.rest), Append(ks, kr.v.s),
                                         Append(acc, r.v))
                  ELSE PFail

ParseValue(s) ==
  IF s = <<>> THEN PFail
  ELSE CASE Head(s) = "n" -> Literal(s, <<"n", "u", "l", "l">>, JNull)
         [] Head(s) = "t" -> Literal(s, <<"t", "r", "u", "e">>, JBool(TRUE))
         [] Head(s) = "f" -> Literal(s, <<"f", "a", "l", "s", "e">>, JBool(FALSE))
         [] Head(s) = "\"" -> ParseChars(Tail(s), <<>>)
         [] Head(s) = "[" ->
              IF Len(s) >= 2 /\ s[2] = "]" THEN POk(JArr(<<>>), Drop(s, 2))
              ELSE ParseItems(Tail(s), <<>>)
         [] Head(s) = "{" ->
              IF Len(s) >= 2 /\ s[2] = "}" THEN POk(JObj(<<>>, <<>>), Drop(s, 2))
              ELSE ParseMembers(Tail(s), <<>>, <<>>)
         [] OTHER -> ParseNumber(s)

\* JSON.parse: the whole text must be one value, otherwise a SyntaxError
JSON_parse(s) ==
  LET r == ParseValue(s)
  IN IF r.ok /\ r.rest = <<>> THEN [ok |-> TRUE, v |-> r.v]
     ELSE [ok |-> FALSE, v |-> Undefined]

\* ------------------------------------------------------------ glob matching
\* Redis' MATCH pattern: '*' matches any run of characters, '?' any single
\* character, every other character of the alphabet used here itself
RECURSIVE GlobMatch(_, _)
GlobMatch(p, s) ==
  IF p = <<>> THEN s = <<>>
  ELSE IF Head(p) = "*"
       THEN GlobMatch(Tail(p), s) \/ (s # <<>> /\ GlobMatch(p, Tail(s)))
  ELSE IF s = <<>> THEN FALSE
  ELSE IF Head(p) = "?" THEN GlobMatch(Tail(p), Tail(s))
  ELSE Head(p) = Head(s) /\ GlobMatch(Tail(p), Tail(s))

\* ------------------------------------------------------------ configuration
Adapters == {1, 2}

\* an optional option is <<>> when it is not given and <<x>> when it is x
Opt(client, keyPrefix, expiration) ==
  [client |-> client, keyPrefix |-> keyPrefix, expiration |-> expiration]

\* the pairs of adapters that are constructed on one store
Scenarios ==
  { <<Opt(TRUE, <<Str_a>>, <<>>), Opt(TRUE, <<Str_a_b>>, <<>>)>>,
    <<Opt(TRUE, <<Str_astar>>, <<>>), Opt(TRUE, <<Str_a>>, <<1>>)>>,
    <<Opt(FALSE, <<Str_a>>, <<1>>), Opt(TRUE, <<Str_aa>>, <<>>)>>,
    <<Opt(TRUE, <<Str_empty>>, <<>>), Opt(FALSE, <<>>, <<>>)>> }

\* constructor: this.keyPrefix, this.expiration and the client.  An adopted
\* client carries no keyPrefix of its own; a built client is created from
\* the very options, keyPrefix included, and ioredis prepends that option
\* to every key of every command it sends.
\* a constructor with `keyPrefix ?? 'mikro'`: the empty string is kept
RedisCacheAdapter_nullish(options) ==
  [ keyPrefix |-> IF options.keyPrefix = <<>> THEN DefaultPrefix
                  ELSE options.keyPrefix[1],
    expiration |-> options.expiration,
    clientKeyPrefix |-> IF options.client THEN <<>>
                        ELSE IF options.keyPrefix = <<>> THEN <<>>
                        ELSE options.keyPrefix[1],
    options |-> options ]

RedisCacheAdapter(options) ==
  [ keyPrefix |-> IF options.keyPrefix = <<>> THEN DefaultPrefix
                  ELSE IF options.keyPrefix[1] = <<>> THEN DefaultPrefix
                  ELSE options.keyPrefix[1],
    expiration |-> options.expiration,
    clientKeyPrefix |-> IF options.client THEN <<>>
                        ELSE IF options.keyPrefix = <<>> THEN <<>>
                        ELSE options.keyPrefix[1],
    options |-> options ]

LogicalKeys == {Str_k, Str_b_k}

\* the values callers store
Values ==
  { JNum(0),
    JObj(<<Str_a>>, <<JArr(<<JNull, JBool(FALSE), JStr(<<"\"">>), JNum(0 - 12)>>)>>) }

\* the expiration argument of set: not passed, 0, or 1 ms
ExpirationArgs == {<<>>, <<0>>, <<1>>}

\* keys and raw texts another tenant of the store writes
TenantKeys == {<<"a", ":", "k">>}
TenantTexts == {<<>>, <<"{">>}

\* ---------------------------------------------------------------- adapter
_getKey(ad, name) == adapter[ad].keyPrefix \o <<":">> \o name

\* ioredis: the keyPrefix option of the client is prepended to command keys
ClientKey(ad, key) == adapter[ad].clientKeyPrefix \o key

\* the key that reaches the store for a logical key
StoreKey(ad, name) == ClientKey(ad, _getKey(ad, name))

\* scanStream({match}): the pattern is sent as it is
ScanPattern(ad) == adapter[ad].keyPrefix \o <<":", "*">>

\* ------------------------------------------------------------------ store
\* the keyspace is a set of entries [key, text, px, by, name], one per key: px
\* is the time after which the key is gone (0: no TTL); by is the adapter
\* that wrote the entry (0: another tenant) and name the logical key it
\* wrote it for, both kept for the properties
StoreKeys(st) == {e.key : e \in st}

Entry(st, key) == CHOOSE e \in st : e.key = key

Live(st, t) == {e \in st : e.px = 0 \/ t <= e.px}

Del(st, keys) == {e \in st : e.key \notin keys}

\* a SET that keeps the TTL of the entry it overwrites when the command
\* carries none (SET ... KEEPTTL)
Put_keepttl(st, e) ==
  Del(st, {e.key}) \cup
    {IF e.px = 0 /\ e.key \in StoreKeys(st)
     THEN [e EXCEPT !.px = Entry(st, e.key).px] ELSE e}

Put(st, e) == Del(st, {e.key}) \cup {e}

\* the reply of GET: a connection error, nil, or the text
Reply(kind, text) == [kind |-> kind, text |-> text]

client_get(ad, key) ==
  IF ~connected[ad] THEN Reply("err", <<>>)
  ELSE IF ClientKey(ad, key) \in StoreKeys(store)
       THEN Reply("text", Entry(store, ClientKey(ad, key)).text)
       ELSE Reply("nil", <<>>)

\* the bucket of the keyspace a key lives in; SCAN walks the buckets in order
Slot(key) == Len(key) % NSlots

\* ----------------------------------------------------------------- results
NoRet ==
  [ op |-> "none", ad |-> 0, key |-> <<>>, status |-> "ok", value |-> Undefined,
    reply |-> "-", exec |-> "-", concurrent |-> FALSE,
    sent |-> <<>>, deleted |-> {}, start |-> {}, touched |-> {},
    seen |-> <<>>, late |-> {}, nomatch |-> FALSE, again |-> FALSE,
    arg |-> <<>> ]

Ret(op, ad, key, status, value) ==
  [NoRet EXCEPT !.op = op, !.ad = ad, !.key = key, !.status = status,
                !.value = value]

\* written remembers, for the properties, the successful set calls whose
\* entry nothing has overwritten or deleted since: [ad, key, sk, value, exp,
\* at, over], with sk the store key, exp the effective expiration (0: none),
\* at the time of the call and over whether the set overwrote an entry that
\* had a TTL.  Expiry does not remove a record.
Forget(w, keys) == {x \in w : x.sk \notin keys}

\* the clear of an adapter: pc, the cursor of the scan and the pipeline's
\* queue; for the properties, seen is what the SCAN replies have yielded,
\* late the keys matching the adapter's pattern that were created after the
\* cursor had passed their bucket, and nomatch whether no key of the store
\* matched the pattern when the clear started
IdleClear ==
  [ pc |-> "idle", cursor |-> 0, queue |-> <<>>, concurrent |-> FALSE,
    start |-> {}, touched |-> {}, seen |-> <<>>, late |-> {}, nomatch |-> FALSE ]

\* every clear in flight other than self's sees the step as concurrent;
\* keys: the store keys the step writes
Others(self, keys) ==
  [a \in Adapters |->
     IF a # self /\ clr[a].pc = "scan"
     THEN [clr[a] EXCEPT
             !.concurrent = TRUE,
             !.touched = clr[a].touched \cup keys,
             !.late = clr[a].late \cup
                        {k \in keys \ StoreKeys(store) :
                           GlobMatch(ScanPattern(a), k)
                             /\ Slot(k) < clr[a].cursor}]
     ELSE clr[a]]

Init ==
  /\ \E sc \in Scenarios : adapter = [a \in Adapters |-> RedisCacheAdapter(sc[a])]
  /\ connected = [a \in Adapters |-> TRUE]
  /\ store = {}
  /\ now = 0
  /\ clr = [a \in Adapters |-> IdleClear]
  /\ ret = NoRet
  /\ written = {}
  /\ ops = 0

\* get with `if (!JSON.parse(data)) return undefined`: a stored falsy value
\* is reported as a miss
get_result_falsy(data) ==
  IF data.kind = "err" THEN [status |-> "error", value |-> Undefined]
  ELSE IF data.kind = "nil" \/ data.text = <<>>
       THEN [status |-> "ok", value |-> Undefined]
  ELSE LET p == JSON_parse(data.text)
       IN IF ~p.ok THEN [status |-> "error", value |-> Undefined]
          ELSE IF p.v \in {JNull, JNum(0), JBool(FALSE), JStr(<<>>)}
               THEN [status |-> "ok", value |-> Undefined]
          ELSE [status |-> "ok", value |-> p.v]

\* get without the `if (!data)` guard: JSON.parse(null) is null
get_result_noguard(data) ==
  IF data.kind = "err" THEN [status |-> "error", value |-> Undefined]
  ELSE IF data.kind = "nil" THEN [status |-> "ok", value |-> JNull]
  ELSE LET p == JSON_parse(data.text)
       IN IF p.ok THEN [status |-> "ok", value |-> p.v]
          ELSE [status |-> "error", value |-> Undefined]

\* get that catches the failure of JSON.parse and reports a miss
get_result_swallow(data) ==
  IF data.kind = "err" THEN [status |-> "error", value |-> Undefined]
  ELSE IF data.kind = "nil" \/ data.text = <<>>
       THEN [status |-> "ok", value |-> Undefined]
  ELSE LET p == JSON_parse(data.text)
       IN IF p.ok THEN [status |-> "ok", value |-> p.v]
          ELSE [status |-> "ok", value |-> Undefined]

\* get: lines 51-59
get_result(data) ==
  IF data.kind = "err" THEN [status |-> "error", value |-> Undefined]
  ELSE IF data.kind = "nil" \/ data.text = <<>>
       THEN [status |-> "ok", value |-> Undefined]
  ELSE LET p == JSON_parse(data.text)
       IN IF p.ok THEN [status |-> "ok", value |-> p.v]
          ELSE [status |-> "error", value |-> Undefined]

Get(ad, key) ==
  LET data == client_get(ad, _getKey(ad, key))
      r == get_result(data)
  IN /\ ops < MaxOps
     /\ ops' = ops + 1
     /\ ret' = [Ret("get", ad, key, r.status, r.value) EXCEPT !.reply = data.kind]
     /\ clr' = Others(0, {})
     /\ UNCHANGED <<adapter, connected, store, now, written>>

\* set: lines 61-79.  The command is SET key text PX ms when the effective
\* expiration is truthy, SET key text otherwise
Truthy(e) == e # <<>> /\ e[1] # 0

\* `expiration || this.expiration`: the default applies to every falsy argument
effective_expiration_or(ad, expirationArg) ==
  IF Truthy(expirationArg) THEN expirationArg ELSE adapter[ad].expiration

\* `expiration = this.expiration`: the default applies when no argument is passed
effective_expiration(ad, expirationArg) ==
  IF expirationArg = <<>> THEN adapter[ad].expiration ELSE expirationArg

\* set that never passes 'PX'
set_command_nopx(expiration) == [px |-> FALSE, ms |-> 0]

set_command(expiration) ==
  IF Truthy(expiration) THEN [px |-> TRUE, ms |-> expiration[1]]
  ELSE [px |-> FALSE, ms |-> 0]

Set(ad, key, data, expirationArg) ==
  LET stringData == JSON_stringify(data)
      completeKey == ClientKey(ad, _getKey(ad, key))
      expiration == effective_expiration(ad, expirationArg)
      cmd == set_command(expiration)
      ok == connected[ad] /\ (cmd.px => cmd.ms > 0)
  IN /\ ops < MaxOps
     /\ ops' = ops + 1
     /\ IF ok
        THEN /\ store' = Put(store, [key |-> completeKey, text |-> stringData,
                                     px |-> IF cmd.px THEN now + cmd.ms ELSE 0,
                                     by |-> ad, name |-> key])
             /\ written' = Forget(written, {completeKey}) \cup
                             {[ad |-> ad, key |-> key, sk |-> completeKey,
                               value |-> data, at |-> now,
                               over |-> \E x \in store :
                                          x.key = completeKey /\ x.px # 0,
                               exp |-> IF Truthy(expiration) THEN expiration[1]
                                       ELSE 0]}
             /\ clr' = Others(0, {completeKey})
        ELSE /\ UNCHANGED <<store, written>>
             /\ clr' = Others(0, {})
     /\ ret' = [Ret("set", ad, key, IF ok THEN "ok" ELSE "error", Undefined)
                  EXCEPT !.arg = expirationArg]
     /\ UNCHANGED <<adapter, connected, now>>

\* remove that treats a DEL reply of 0 (no such key) as a failure
remove_status_strict(count) == IF count = 0 THEN "error" ELSE "ok"

\* remove awaits the DEL and ignores the number of keys it reports (line 83)
remove_status(count) == "ok"

\* remove: lines 81-84
Remove(ad, name) ==
  LET completeKey == ClientKey(ad, _getKey(ad, name))
      count == IF completeKey \in StoreKeys(store) THEN 1 ELSE 0
      ok == connected[ad] /\ remove_status(count) = "ok"
  IN /\ ops < MaxOps
     /\ ops' = ops + 1
     /\ IF ok
        THEN /\ store' = Del(store, {completeKey})
             /\ written' = Forget(written, {completeKey})
        ELSE UNCHANGED <<store, written>>
     /\ clr' = Others(0, {})
     /\ ret' = [Ret("remove", ad, name, IF ok THEN "ok" ELSE "error", Undefined)
                  EXCEPT !.again = (ret.op = "remove" /\ ret.ad = ad
                                      /\ ret.key = name /\ ret.status = "ok")]
     /\ UNCHANGED <<adapter, connected, now>>

\* clear: lines 86-117.  ClearStart creates the scan stream and the pipeline
\* (lines 91-94); start and touched record, for the properties, the keys
\* this adapter has in the store at that moment and the keys written meanwhile

ClearStart(ad) ==
  /\ clr[ad].pc = "idle"
  /\ ops < MaxOps
  /\ ops' = ops + 1
  /\ clr' = [Others(ad, {}) EXCEPT ![ad] =
               [IdleClear EXCEPT !.pc = "scan",
                  !.start = {e.key : e \in {x \in store : x.by = ad}},
                  !.nomatch = \A k \in StoreKeys(store) :
                                 ~GlobMatch(ScanPattern(ad), k)]]
  /\ ret' = NoRet
  /\ UNCHANGED <<adapter, connected, store, now, written>>

\* a set of keys in the order the store yields them
RECURSIVE SeqOf(_)
SeqOf(S) ==
  IF S = {} THEN <<>>
  ELSE LET x == CHOOSE y \in S : \A z \in S : Len(y) <= Len(z)
       IN <<x>> \o SeqOf(S \ {x})

\* the 'data' listener, lines 96-100: one DEL is queued for each key
pipeline_del(queue, keys) == IF Len(keys) > 0 THEN queue \o keys ELSE queue

\* one SCAN round trip and its 'data' event (lines 95-101): the keys of the
\* bucket under the cursor that match the pattern are queued as DEL commands.
\* A failed SCAN makes the stream emit 'error', for which clear registers no
\* listener: neither resolve nor reject is ever called.
ScanData(ad, fail) ==
  /\ clr[ad].pc = "scan"
  /\ clr[ad].cursor < NSlots
  /\ IF fail \/ ~connected[ad]
     THEN clr' = [Others(ad, {}) EXCEPT ![ad].pc = "hung"]
     ELSE LET keys == SeqOf({k \in StoreKeys(store) :
                               /\ Slot(k) = clr[ad].cursor
                               /\ GlobMatch(ScanPattern(ad), k)})
          IN clr' = [Others(ad, {}) EXCEPT
                       ![ad].cursor = clr[ad].cursor + 1,
                       ![ad].seen = clr[ad].seen \o keys,
                       ![ad].queue = pipeline_del(clr[ad].queue, keys)]
  /\ ret' = NoRet
  /\ UNCHANGED <<adapter, connected, store, now, written, ops>>

Range(q) == {q[i] : i \in 1..Len(q)}

\* pipeline.exec(callback) as ioredis runs it; what the callback receives:
\*   "ok"      every queued DEL ran; err is null
\*   "cmdErr"  some DEL failed: the failure is in that command's entry of the
\*             results array, err is null
\*   "execErr" the pipeline was not run; err is the error
\* an empty pipeline resolves at once with no results
ExecOutcomes(ad) ==
  IF clr[ad].queue = <<>> THEN {"ok"}
  ELSE IF ~connected[ad] THEN {"cmdErr"}
  ELSE {"ok", "cmdErr", "execErr"}

\* the callback of exec, lines 103-114
\* an exec callback with its test inverted
exec_callback_inverted(err) == IF err THEN "resolved" ELSE "rejected"

exec_callback(err) == IF err THEN "rejected" ELSE "resolved"

\* an 'end' listener that deletes every key matching the pattern at that
\* moment instead of the keys that were queued
exec_batch_rescan(ad, queue) ==
  LET now_matching == SeqOf({k \in StoreKeys(store) : GlobMatch(ScanPattern(ad), k)})
  IN [i \in 1..Len(now_matching) |-> ClientKey(ad, now_matching[i])]

\* the keys of the DEL commands that pipeline.exec sends, as the client
\* sends them (line 103)
exec_batch(ad, queue) == [i \in 1..Len(queue) |-> ClientKey(ad, queue[i])]

\* the 'end' event (lines 102-115): the queued DELs are sent as one batch;
\* done is the set of queued keys whose DEL ran
ScanEnd(ad, outcome, done) ==
  LET c == clr[ad]
      sent == exec_batch(ad, c.queue)
      gone == {k \in Range(sent) : k \in done}
  IN /\ c.pc = "scan"
     /\ c.cursor = NSlots
     /\ outcome \in ExecOutcomes(ad)
     /\ done \subseteq Range(sent)
     /\ outcome = "ok" => done = Range(sent)
     /\ outcome = "cmdErr" => done # Range(sent)
     /\ outcome = "execErr" => done = {}
     /\ store' = Del(store, gone)
     /\ written' = Forget(written, gone)
     /\ clr' = [Others(ad, {}) EXCEPT ![ad] = IdleClear]
     /\ ret' = [Ret("clear", ad, <<>>, exec_callback(outcome = "execErr"), Undefined)
                  EXCEPT !.exec = outcome, !.concurrent = c.concurrent,
                         !.sent = sent,
                         !.deleted = {e \in store : e.key \in gone},
                         !.start = c.start, !.touched = c.touched,
                         !.seen = c.seen, !.late = c.late, !.nomatch = c.nomatch]
     /\ UNCHANGED <<adapter, connected, now, ops>>

\* a disconnect that ends every client of the process
client_disconnect_all(c, ad) == [a \in Adapters |-> FALSE]

\* this.client.disconnect(), line 120
client_disconnect(c, ad) == [c EXCEPT ![ad] = FALSE]

\* close: lines 119-121
Close(ad) ==
  /\ ops < MaxOps
  /\ ops' = ops + 1
  /\ connected[ad]
  /\ connected' = client_disconnect(connected, ad)
  /\ clr' = Others(0, {})
  /\ ret' = Ret("close", ad, <<>>, "ok", Undefined)
  /\ UNCHANGED <<adapter, store, now, written>>

\* another tenant of the store writes a raw text
TenantSet(key, text) ==
  /\ ops < MaxOps
  /\ ops' = ops + 1
  /\ store' = Put(store, [key |-> key, text |-> text, px |-> 0, by |-> 0,
                          name |-> <<>>])
  /\ written' = Forget(written, {key})
  /\ clr' = Others(0, {key})
  /\ ret' = NoRet
  /\ UNCHANGED <<adapter, connected, now>>

\* the store's clock advances by 1 ms; keys past their expiry are gone.  ret
\* is the outcome of a call that completed at the present time
Tick ==
  /\ now < MaxTime
  /\ now' = now + 1
  /\ store' = Live(store, now + 1)
  /\ ret' = NoRet
  /\ UNCHANGED <<adapter, connected, clr, written, ops>>

\* the steps of the clear in flight on an adapter
ClearStep(ad) ==
  \/ \E fail \in BOOLEAN : ScanData(ad, fail)
  \/ \E outcome \in {"ok", "cmdErr", "execErr"}, done \in SUBSET StoreKeys(store) :
       ScanEnd(ad, outcome, done)

Next ==
  \/ \E ad \in Adapters, key \in LogicalKeys : Get(ad, key)
  \/ \E ad \in Adapters, key \in LogicalKeys, data \in Values,
        e \in ExpirationArgs : Set(ad, key, data, e)
  \/ \E ad \in Adapters, key \in LogicalKeys : Remove(ad, key)
  \/ \E ad \in Adapters : ClearStart(ad)
  \/ \E ad \in Adapters : ClearStep(ad)
  \/ \E ad \in Adapters : Close(ad)
  \/ \E key \in TenantKeys, text \in TenantTexts : TenantSet(key, text)
  \/ Tick

Spec == Init /\ [][Next]_vars

\* --------------------------------------------------------------- properties
\* the last call was a get whose read reached the store
IsGet == ret.op = "get" /\ ret.reply # "err"

\* the set of adapter ad for logical key `key` that is still in effect
WrittenFor(ad, key) == {w \in written : w.ad = ad /\ w.key = key}

\* the time on the store clock since the set w
Elapsed(w) == now - w.at

\* C1 (round trip): a get that reaches the store returns the value of the
\* last successful set of the same adapter and logical key, when nothing has
\* overwritten or deleted that entry since and its expiration, if any, has
\* not elapsed.
C1_RoundTrip ==
  IsGet =>
    \A w \in WrittenFor(ret.ad, ret.key) :
      (w.exp = 0 \/ Elapsed(w) < w.exp) =>
        ret.status = "ok" /\ ret.value = w.value

C1_Witness ==
  /\ IsGet
  /\ \E w \in WrittenFor(ret.ad, ret.key) :
       /\ w.value = JNum(0)
       /\ ret.value = w.value
       /\ adapter[ret.ad].clientKeyPrefix # <<>>
       /\ Cardinality(store) = 2

\* C2 (namespacing): every entry an adapter wrote is stored under the key
\* keyPrefix + ":" + logical key, whether the adapter adopted its client or
\* built it from the options.
C2_Namespacing ==
  \A e \in store :
    e.by \in Adapters => e.key = adapter[e.by].keyPrefix \o <<":">> \o e.name

\* both adapters adopted a client that has no keyPrefix of its own
Adopted == \A ad \in Adapters : adapter[ad].options.client

\* C3 (isolation): a get never reads an entry that an adapter with a
\* different prefix wrote, already when both adapters adopted their client.
C3_Isolation ==
  (Adopted /\ IsGet /\ ret.reply = "text") =>
    LET e == Entry(store, StoreKey(ret.ad, ret.key))
    IN e.by \in Adapters => adapter[e.by].keyPrefix = adapter[ret.ad].keyPrefix

\* C4 (bulk clear): when a clear that no call overlapped resolves, even one
\* whose queued deletes all ran, none of the adapter's logical keys is in the
\* store any more, so that get returns absent for each of them.
C4_ClearRemovesAll ==
  (ret.op = "clear" /\ ret.status = "resolved" /\ ~ret.concurrent /\ ret.exec = "ok") =>
    \A key \in LogicalKeys : StoreKey(ret.ad, key) \notin StoreKeys(store)

\* C5 (frame of clear): a clear deletes no entry that an adapter with a
\* different prefix wrote, already when both adapters adopted their client.
C5_ClearLeavesOthers ==
  (Adopted /\ ret.op = "clear") =>
    \A e \in ret.deleted :
      e.by \in Adapters => adapter[e.by].keyPrefix = adapter[ret.ad].keyPrefix

\* C6 (miss): a get on a connected client for a logical key whose store key
\* is not in the store completes normally and returns absent.
C6_Miss ==
  (ret.op = "get" /\ connected[ret.ad]
     /\ StoreKey(ret.ad, ret.key) \notin StoreKeys(store)) =>
    ret.status = "ok" /\ ret.value = Undefined

C6_Witness ==
  /\ ret.op = "get" /\ connected[ret.ad]
  /\ StoreKey(ret.ad, ret.key) \notin StoreKeys(store)
  /\ ret.reply = "nil" /\ ret.value = Undefined
  /\ store # {}
  /\ ops = 3

\* C7 (expiration): a get that reaches the store, for a key whose last set
\* nothing has overwritten or deleted, returns the value before the effective
\* expiration E > 0 has elapsed and absent once more than E has elapsed; with
\* no effective expiration it returns the value after any elapsed time.
C7_Expiration ==
  IsGet =>
    \A w \in WrittenFor(ret.ad, ret.key) :
      /\ (w.exp > 0 /\ Elapsed(w) < w.exp) => (ret.status = "ok" /\ ret.value = w.value)
      /\ (w.exp > 0 /\ Elapsed(w) > w.exp) => (ret.status = "ok" /\ ret.value = Undefined)
      /\ w.exp = 0 => (ret.status = "ok" /\ ret.value = w.value)

C7_Witness ==
  /\ IsGet
  /\ \E w \in WrittenFor(ret.ad, ret.key) :
       w.exp > 0 /\ Elapsed(w) > w.exp /\ ret.value = Undefined
  /\ StoreKey(ret.ad, ret.key) \notin StoreKeys(store)

\* C8 (weak consistency of clear): when a clear resolves, even one whose
\* queued deletes all ran, every key the adapter had in the store when the
\* clear started and that no call wrote meanwhile is absent from the store.
C8_ClearWeakConsistency ==
  (ret.op = "clear" /\ ret.status = "resolved" /\ ret.exec = "ok") =>
    \A key \in ret.start \ ret.touched : key \notin StoreKeys(store)

\* C9 (clear settles): a clear that has neither resolved nor rejected can
\* still take a step, so that under fair scheduling it settles.
C9_ClearSettles ==
  \A ad \in Adapters : clr[ad].pc # "idle" => ENABLED ClearStep(ad)

\* C10 (sweep failure is reported): a clear whose batched delete failed, as
\* a whole or in some of its commands, rejects.
C10_SweepFailureReported ==
  (ret.op = "clear" /\ ret.exec \in {"cmdErr", "execErr"}) => ret.status = "rejected"

\* the text the store holds under the physical key of the last get
TextRead == Entry(store, StoreKey(ret.ad, ret.key)).text

\* C11 (decode failure is an error): a get on a connected client whose
\* physical key holds the text "{", which is no JSON document, fails with an
\* error instead of returning absent; a get whose physical key holds the
\* empty text returns absent without an error, the text never being decoded.
C11_DecodeFailure ==
  (ret.op = "get" /\ connected[ret.ad]
     /\ StoreKey(ret.ad, ret.key) \in StoreKeys(store)) =>
    /\ TextRead = <<"{">> => ret.status = "error"
    /\ TextRead = <<>> => (ret.status = "ok" /\ ret.value = Undefined)

C11_Witness ==
  /\ ret.op = "get" /\ connected[ret.ad] /\ ret.reply = "text"
  /\ StoreKey(ret.ad, ret.key) \in StoreKeys(store)
  /\ TextRead = <<"{">>
  /\ ret.status = "error"

\* C12 (idempotent remove): a remove on a connected client succeeds whether
\* or not the physical key is in the store, and the key is absent from the
\* store afterwards, so that a get returns absent; a remove that directly
\* follows a successful remove of the same adapter and key succeeds too and
\* leaves the store as the first one left it.
C12_IdempotentRemove ==
  [][(ret'.op = "remove" /\ ops' = ops + 1 /\ connected[ret'.ad]) =>
       /\ ret'.status = "ok"
       /\ StoreKey(ret'.ad, ret'.key) \notin StoreKeys(store')
       /\ ret'.again => store' = store]_vars

C12_Witness ==
  /\ ret.op = "remove" /\ ret.again /\ ret.status = "ok"
  /\ StoreKey(ret.ad, ret.key) \notin StoreKeys(store)
  /\ store # {}

\* C13 (empty clear): a clear that started on a store holding no key that
\* matches the adapter's pattern, with no other call meanwhile, resolves when
\* it settles, and the step that settles it leaves the store as it was.
C13_EmptyClear ==
  [][(ret'.op = "clear" /\ ret' # ret /\ ret'.nomatch /\ ~ret'.concurrent) =>
       /\ ret'.status = "resolved"
       /\ store' = store]_vars

C13_Witness ==
  /\ ret.op = "clear" /\ ret.nomatch /\ ~ret.concurrent
  /\ ret.status = "resolved"
  /\ store # {}

\* C14 (lifecycle): every client is connected after construction, and a
\* client goes from connected to disconnected only in a close() step of its
\* own adapter, for an adopted and for a built client alike; close()
\* disconnects at once, also while a clear of the adapter is in flight.
C14_Lifecycle ==
  [][\A ad \in Adapters :
       /\ ops = 0 => connected[ad]
       /\ (connected[ad] /\ ~connected'[ad]) =>
            (ret'.op = "close" /\ ret'.ad = ad /\ ops' = ops + 1)
       /\ (ret'.op = "close" /\ ret'.ad = ad /\ ops' = ops + 1) =>
            ~connected'[ad]]_vars

C14_Witness ==
  /\ ret.op = "close" /\ ~connected[ret.ad]
  /\ ~adapter[ret.ad].options.client
  /\ clr[ret.ad].pc = "scan"
  /\ \E other \in Adapters : connected[other] /\ adapter[other].options.client

\* C15 (no empty batch): when the SCAN replies of a clear yielded no key, the
\* clear settles without having called pipeline.exec (ret.exec is "-" when no
\* exec was called, and the outcome of the call otherwise).
C15_NoEmptyBatch ==
  (ret.op = "clear" /\ ret.seen = <<>>) => ret.exec = "-"

C17_TwoPhase ==
  [][\A ad \in Adapters :
       /\ (clr[ad].pc = "scan" /\ clr'[ad].pc = "scan"
              /\ clr'[ad].cursor = clr[ad].cursor + 1) =>
            /\ store' = store
            /\ clr'[ad].queue = clr'[ad].seen
       /\ (clr[ad].pc = "scan" /\ clr'[ad].pc = "idle") =>
            /\ ret'.op = "clear" /\ ret'.ad = ad
            /\ ret'.seen = clr[ad].seen
            /\ ret'.sent = ret'.seen]_vars

\* C18 (choice of the effective expiration): after every successful set, the
\* effective expiration being the argument when one was passed and the
\* adapter's default otherwise, the entry written expires exactly that many
\* milliseconds after the write when the effective expiration is present and
\* not 0, and has no TTL otherwise, so an argument of 0 overrides a default
\* that is not 0.
C18_EffectiveExpiration ==
  (ret.op = "set" /\ ret.status = "ok") =>
    LET E == IF ret.arg # <<>> THEN ret.arg ELSE adapter[ret.ad].expiration
    IN \E x \in store :
         /\ x.key = StoreKey(ret.ad, ret.key)
         /\ IF E # <<>> /\ E[1] # 0 THEN x.px = now + E[1] ELSE x.px = 0

C18_Witness ==
  /\ ret.op = "set" /\ ret.status = "ok"
  /\ adapter[ret.ad].expiration = <<1>> /\ ret.arg = <<0>>
  /\ \E x \in store : /\ x.key = StoreKey(ret.ad, ret.key)
                       /\ x.by = ret.ad /\ x.px = 0

\* C19 (the last set decides the TTL): the entry of a set that nothing has
\* overwritten or deleted since carries the TTL of that set alone: with an
\* effective expiration E it leaves the store once more than E has elapsed
\* since that set, and with none it has no TTL and stays in the store with
\* its text, also when the set overwrote an entry that had a TTL.
C19_LastSetDecides ==
  \A w \in written :
    /\ w.exp = 0 =>
         \E x \in store : /\ x.key = w.sk /\ x.px = 0
                          /\ x.text = JSON_stringify(w.value)
    /\ w.exp > 0 =>
         \A x \in store : x.key = w.sk => x.px = w.at + w.exp
    /\ (w.exp > 0 /\ Elapsed(w) > w.exp) => w.sk \notin StoreKeys(store)

C19_Witness ==
  \E w \in written :
    /\ w.over /\ w.exp = 0 /\ Elapsed(w) > 1
    /\ w.sk \in StoreKeys(store)
    /\ adapter[w.ad].expiration = <<1>>

\* the adapters constructed with keyPrefix '' and with no keyPrefix at all
EmptyPrefix == {ad \in Adapters : adapter[ad].options.keyPrefix = <<Str_empty>>}
NoPrefix == {ad \in Adapters : adapter[ad].options.keyPrefix = <<>>}

Mikro(name) == <<"m", "i", "k", "r", "o", ":">> \o name

\* C20 (an empty keyPrefix is no keyPrefix): an adapter constructed with
\* keyPrefix '' uses the physical key 'mikro:' + k for every logical key k, as
\* an adapter constructed with no keyPrefix does; every entry it wrote is
\* under such a key; its clear scans for 'mikro:*'; and a get of it that
\* reaches the store returns the value of the last set on that physical key,
\* whichever of the adapters made it, while that entry is in the store.
C20_EmptyPrefixIsDefault ==
  \A ad \in EmptyPrefix :
    /\ \A k \in LogicalKeys :
         /\ StoreKey(ad, k) = Mikro(k)
         /\ \A other \in NoPrefix : StoreKey(other, k) = StoreKey(ad, k)
    /\ \A x \in store : x.by = ad => x.key = Mikro(x.name)
    /\ ScanPattern(ad) = Mikro(<<"*">>)
    /\ (IsGet /\ ret.ad = ad) =>
         \A w \in written :
           (w.sk = Mikro(ret.key) /\ w.sk \in StoreKeys(store)) =>
             (ret.status = "ok" /\ ret.value = w.value)

C20_Witness ==
  /\ IsGet /\ ret.ad \in EmptyPrefix /\ ret.reply = "text"
  /\ \E w \in written :
       /\ w.ad \in NoPrefix /\ w.sk = Mikro(ret.key)
       /\ ret.value = w.value /\ ret.value # Undefined

====
